---- MODULE Spec2Model ----
(***************************************************************************)
(* A state-machine model of pydisdrometer/DropSizeDistribution.py: the     *)
(* DropSizeDistribution object, its scattering set-up, the per-timestep    *)
(* radar parameter loop, the rain-rate estimator, the moment calculator    *)
(* and the three rainfall-relationship fits.                               *)
(*                                                                         *)
(* Numbers.  Bin edges are integers in units of 0.5 mm; a bin's diameter   *)
(* is its centre in units of 0.25 mm; velocities are in mm/s.  A float     *)
(* held by the program is one of                                           *)
(*    [k |-> "num", n |-> i]   the number i                                *)
(*    [k |-> "rr",  n |-> i]   0.6 * pi * 1e-3 * i, i > 0 (model units)     *)
(*    [k |-> "nan"], [k |-> "ninf"]   NaN and -infinity                    *)
(*    [k |-> "lin", ...]       a positive finite quantity returned by the  *)
(*                             scattering engine for the scatterer state   *)
(*                             it read (quantity, wavelength, geometry,    *)
(*                             psd)                                        *)
(*    [k |-> "dB", ...]        10*log10 of such a quantity                 *)
(*    [k |-> "pow10", n |-> i] 10^(0.1*i), i # 0                           *)
(* An optional Python value is <<>> (None) or <<v>>.                       *)
(***************************************************************************)
EXTENDS Integers, Sequences, FiniteSets, TLC

\* Bounds of the model.
MaxT == 2
NBins == 2
MaxCalls == 2

VARIABLES time, bin_edges, diameter, spread, Nd, rain_rate,
          Zh, Zdr, Kdp, Ai, scatterer, builds, calls,
          pc, t, ret, fit, before, radarDone

vars == <<time, bin_edges, diameter, spread, Nd, rain_rate,
          Zh, Zdr, Kdp, Ai, scatterer, builds, calls,
          pc, t, ret, fit, before, radarDone>>

inputs == <<time, bin_edges, diameter, spread, Nd>>
series == <<Zh, Zdr, Kdp, Ai>>

----------------------------------------------------------------------------
\* Values

None == <<>>
Some(v) == <<v>>
IsNone(x) == x = <<>>
Val(x) == x[1]

Num(i) == [k |-> "num", n |-> i]
NaN == [k |-> "nan"]
NegInf == [k |-> "ninf"]

\* np.zeros(n), np.ones(n)
Zeros(n) == [i \in 1..n |-> Num(0)]
Ones(n) == [i \in 1..n |-> Num(1)]

\* elementwise `> 0` of numpy: NaN and -inf compare False
Gt0(v) ==
  CASE v.k = "num" -> v.n > 0
    [] v.k = "rr" -> v.n > 0
    [] v.k = "lin" -> TRUE
    [] v.k = "pow10" -> TRUE
    [] OTHER -> FALSE

\* 10 * np.log10(x) of a non-negative quantity (log10(0) = -inf)
Log10x10(v) ==
  CASE v.k = "num" /\ v.n = 0 -> NegInf
    [] v.k = "num" /\ v.n = 1 -> Num(0)
    [] v.k = "lin" -> [v EXCEPT !.k = "dB"]
    [] OTHER -> NaN

\* np.power(10, 0.1 * db)
idb(v) ==
  CASE v.k = "num" /\ v.n = 0 -> Num(1)
    [] v.k = "num" -> [k |-> "pow10", n |-> v.n]
    [] v.k = "ninf" -> Num(0)
    [] v.k = "dB" -> [v EXCEPT !.k = "lin"]
    [] OTHER -> NaN

RECURSIVE SumSeq(_)
SumSeq(s) == IF s = <<>> THEN 0 ELSE s[1] + SumSeq(Tail(s))

\* the indices 1..Len(s) that satisfy the mask, and numpy's s[mask]
RECURSIVE SetToSeq(_)
SetToSeq(S) ==
  IF S = {} THEN <<>>
  ELSE LET lo == CHOOSE x \in S : \A y \in S : x <= y
       IN <<lo>> \o SetToSeq(S \ {lo})

Take(s, idx) == LET o == SetToSeq(idx) IN [j \in 1..Len(o) |-> s[o[j]]]

----------------------------------------------------------------------------
\* Construction

\* strictly increasing edge sequences with NBins bins
EdgeSeqs ==
  {e \in [1..(NBins + 1) -> 0..(NBins + 1)] :
     \A i \in 1..NBins : e[i] < e[i + 1]}

\* concentrations of one timestep
Rows == [1..NBins -> {0, 2}]

\* externally supplied rain-rate readings
RRVals == {Num(0), Num(2), NaN}

Snapshot == <<Zh, Zdr, Kdp, Ai, rain_rate>>

NoScatterer ==
  [set |-> FALSE, wavelength |-> "", m |-> "", axis_ratio_func |-> "",
   D_max |-> 0, geometries |-> {}, or_pdf |-> 0, orient |-> "",
   table |-> <<>>, psd |-> None, geom |-> ""]

Idle == [op |-> "", arg |-> <<>>, outcome |-> "", value |-> "", msg |-> ""]

Init ==
  /\ \E n \in 0..MaxT : time = [i \in 1..n |-> i]
  /\ bin_edges \in EdgeSeqs
  /\ diameter = [i \in 1..NBins |-> bin_edges[i] + bin_edges[i + 1]]
  /\ spread = [i \in 1..NBins |-> bin_edges[i + 1] - bin_edges[i]]
  /\ \E n \in 0..Len(time) : Nd \in [1..n -> Rows]
  /\ \/ rain_rate = None
     \/ \E r \in [1..Len(time) -> RRVals] : rain_rate = Some(r)
  /\ Zh = Some(Zeros(Len(time)))
  /\ Zdr = Some(Zeros(Len(time)))
  /\ Kdp = Some(Zeros(Len(time)))
  /\ Ai = Some(Zeros(Len(time)))
  /\ scatterer = NoScatterer
  /\ builds = <<>>
  /\ calls = 0
  /\ pc = "idle"
  /\ t = 0
  /\ ret = Idle
  /\ fit = <<>>
  /\ before = <<Some(Zeros(Len(time))), Some(Zeros(Len(time))),
                Some(Zeros(Len(time))), Some(Zeros(Len(time))), rain_rate>>
  /\ radarDone = FALSE

----------------------------------------------------------------------------
\* calculate_RR

\* 9.65 - 10.3 * exp(-0.6 * D) in mm/s, D in units of 0.25 mm
Velocity(d) ==
  CASE d = 1 -> 785 [] d = 2 -> 2020 [] d = 3 -> 3082 [] d = 4 -> 3997
    [] d = 5 -> 4785 [] d = 6 -> 5462 [] d = 7 -> 6046 [] d = 8 -> 6548
    [] d = 9 -> 6980 [] d = 10 -> 7352 [] d = 11 -> 7672 [] OTHER -> 7947

VelocityArray_NoOverride(d) == [i \in 1..Len(d) |-> Velocity(d[i])]

\* velocity = 9.65 - 10.3*np.exp(-0.6*self.diameter); velocity[0] = 0.5
VelocityArray(d) ==
  LET v == [i \in 1..Len(d) |-> Velocity(d[i])]
  IN [v EXCEPT ![1] = 500]

\* np.multiply on equal-length arrays
Multiply(a, b) == [i \in 1..Len(a) |-> a[i] * b[i]]

RECURSIVE MFold(_, _)
MFold(acc, args) ==
  IF args = <<>> THEN acc ELSE MFold(Multiply(acc, args[1]), Tail(args))

mmultiply(args) == MFold([i \in 1..Len(args[1]) |-> 1], args)

Cube(d) == [i \in 1..Len(d) |-> d[i] * d[i] * d[i]]

\* 0.6 * np.pi * 1e-03 * x
Prefactor(x) == IF x = 0 THEN Num(0) ELSE [k |-> "rr", n |-> x]

RRAt(i) ==
  Prefactor(SumSeq(mmultiply(<<VelocityArray(diameter), Nd[i], spread,
                               Cube(diameter)>>)))

\* the loop stops with IndexError at the first t with no row Nd[t]
RRArray ==
  [i \in 1..Len(time) |-> IF i <= Len(Nd) THEN RRAt(i) ELSE Num(0)]

calculate_RR ==
  /\ pc = "idle"
  /\ before' = Snapshot
  /\ rain_rate' = Some(RRArray)
  /\ fit' = <<>>
  /\ ret' = IF Len(Nd) < Len(time)
            THEN [op |-> "calculate_RR", arg |-> <<>>, outcome |-> "raise",
                  value |-> "", msg |-> "IndexError"]
            ELSE [op |-> "calculate_RR", arg |-> <<>>, outcome |-> "return",
                  value |-> "None", msg |-> ""]
  /\ UNCHANGED <<inputs, series, scatterer, builds, calls, pc, t, radarDone>>

----------------------------------------------------------------------------
\* _calc_mth_moment

bin_width == [i \in 1..(Len(bin_edges) - 1) |-> bin_edges[i + 1] - bin_edges[i]]

\* np.zeros(len(np.time)): the numpy module has no attribute `time`
calc_mth_moment(m) ==
  /\ pc = "idle"
  /\ before' = Snapshot
  /\ fit' = <<>>
  /\ ret' = [op |-> "_calc_mth_moment", arg |-> <<m>>, outcome |-> "raise",
             value |-> "", msg |-> "AttributeError"]
  /\ UNCHANGED <<inputs, rain_rate, series, scatterer, builds, calls, pc, t,
                 radarDone>>

----------------------------------------------------------------------------
\* _setup_scattering and calc_radar_parameters

\* pytmatrix wavelengths offered to the caller (tmatrix_aux.wl_X is the default)
Wavelengths == {"wl_X", "wl_C"}

geom_horiz_back == "geom_horiz_back"
geom_horiz_forw == "geom_horiz_forw"

\* refractive.m_w_10C[wavelength]
m_w_10C(wavelength) == [table |-> "m_w_10C", wl |-> wavelength]

\* the configuration init_scatter_table precomputes the table for
TableConfig(sc) ==
  [wavelength |-> sc.wavelength, m |-> sc.m,
   axis_ratio_func |-> sc.axis_ratio_func, or_pdf |-> sc.or_pdf,
   orient |-> sc.orient, D_max |-> sc.D_max, geometries |-> sc.geometries]

\* a new Scatterer (its default geometry is the horizontal backscatter one)
\* configured as lines 67-76 configure it
NewScatterer(wavelength) ==
  [set |-> TRUE, wavelength |-> wavelength, m |-> m_w_10C(wavelength),
   axis_ratio_func |-> "1.0/DSR.bc(D)", D_max |-> 10,
   geometries |-> {geom_horiz_back, geom_horiz_forw},
   or_pdf |-> 20, orient |-> "orient_averaged_fixed",
   table |-> None, psd |-> None, geom |-> geom_horiz_back]

\* a memoizing set-up: keeps the scatterer and its table when the wavelength
\* (hence the whole configuration) is the one already set up
setup_scattering_Memo(old, log, wavelength) ==
  IF old.set /\ old.wavelength = wavelength
  THEN [scatterer |-> old, builds |-> log]
  ELSE LET sc == NewScatterer(wavelength)
       IN [scatterer |-> [sc EXCEPT !.table = Some(TableConfig(sc))],
           builds |-> Append(log, TableConfig(sc))]

\* _setup_scattering(wavelength): self.scatterer is replaced and
\* init_scatter_table runs, whatever `old` was; `log` lists the runs
setup_scattering(old, log, wavelength) ==
  LET sc == NewScatterer(wavelength)
  IN [scatterer |-> [sc EXCEPT !.table = Some(TableConfig(sc))],
      builds |-> Append(log, TableConfig(sc))]

\* pytmatrix.psd.BinnedPSD(bin_edges, bin_psd)
BinnedPSD(edges, row) == [bin_edges |-> edges, bin_psd |-> row]

set_geometry(sc, g) == [sc EXCEPT !.geom = g]

\* the scattering engine: a deterministic function of the scatterer state it
\* reads; an all-zero psd integrates to 0 (so Zdr is 0/0)
Engine(q, sc) ==
  [k |-> "lin", q |-> q, wl |-> sc.wavelength, geom |-> sc.geom,
   psd |-> Val(sc.psd)]

ZeroPsd(sc) == SumSeq(Val(sc.psd).bin_psd) = 0

radar_refl(sc) == IF ZeroPsd(sc) THEN Num(0) ELSE Engine("refl", sc)
radar_Zdr(sc) == IF ZeroPsd(sc) THEN NaN ELSE Engine("Zdr", sc)
radar_Kdp(sc) == IF ZeroPsd(sc) THEN Num(0) ELSE Engine("Kdp", sc)
radar_Ai(sc) == IF ZeroPsd(sc) THEN Num(0) ELSE Engine("Ai", sc)

\* arr[t] = v on a stored array
StoreAt_Shifted(arr, i, v) ==
  Some([j \in 1..Len(Val(arr)) |->
          IF j = i \/ j = i + 1 THEN v ELSE Val(arr)[j]])

StoreAt(arr, i, v) == Some([Val(arr) EXCEPT ![i] = v])

\* the scatterer as the body of the loop leaves it for timestep i
ScattererBack(sc, i) ==
  set_geometry([sc EXCEPT !.psd = Some(BinnedPSD(bin_edges, Nd[i]))],
               geom_horiz_back)
ScattererForw(sc, i) == set_geometry(ScattererBack(sc, i), geom_horiz_forw)

\* calc_radar_parameters(wavelength): line 49, then the loop is entered
crp_call(wavelength) ==
  /\ pc = "idle"
  /\ calls < MaxCalls
  /\ before' = Snapshot
  /\ fit' = <<>>
  /\ scatterer' = setup_scattering(scatterer, builds, wavelength).scatterer
  /\ builds' = setup_scattering(scatterer, builds, wavelength).builds
  /\ ret' = [op |-> "calc_radar_parameters", arg |-> <<wavelength>>,
             outcome |-> "running", value |-> "", msg |-> ""]
  /\ calls' = calls + 1
  /\ pc' = "loop"
  /\ t' = 1
  /\ UNCHANGED <<inputs, rain_rate, series, radarDone>>

\* one pass of the loop body (lines 52-59) for timestep t
crp_step ==
  /\ pc = "loop"
  /\ t <= Len(time)
  /\ t <= Len(Nd)
  /\ scatterer' = ScattererForw(scatterer, t)
  /\ Zdr' = StoreAt(Zdr, t, Log10x10(radar_Zdr(ScattererBack(scatterer, t))))
  /\ Zh' = StoreAt(Zh, t, Log10x10(radar_refl(ScattererBack(scatterer, t))))
  /\ Kdp' = StoreAt(Kdp, t, radar_Kdp(ScattererForw(scatterer, t)))
  /\ Ai' = StoreAt(Ai, t, radar_Ai(ScattererForw(scatterer, t)))
  /\ t' = t + 1
  /\ UNCHANGED <<inputs, rain_rate, builds, calls, pc, ret, fit, before, radarDone>>

\* self.Nd[t] raises IndexError when Nd has no row t
crp_fail ==
  /\ pc = "loop"
  /\ t <= Len(time)
  /\ t > Len(Nd)
  /\ pc' = "idle"
  /\ t' = 0
  /\ ret' = [ret EXCEPT !.outcome = "raise", !.msg = "IndexError"]
  /\ UNCHANGED <<inputs, rain_rate, series, scatterer, builds, calls, fit, before,
                 radarDone>>

\* the loop is exhausted and the call returns None
crp_return ==
  /\ pc = "loop"
  /\ t > Len(time)
  /\ pc' = "idle"
  /\ t' = 0
  /\ ret' = [ret EXCEPT !.outcome = "return", !.value = "None"]
  /\ radarDone' = TRUE
  /\ UNCHANGED <<inputs, rain_rate, series, scatterer, builds, calls, fit, before>>

----------------------------------------------------------------------------
\* The fits

\* what a fit hands to the regression routine: the selected indices, the
\* independent data and the dependent data
Call(routine, idx, X, R) == [routine |-> routine, idx |-> idx, X |-> X, R |-> R]

\* expfit(X, R), curve_fit(f, xdata, ydata): the routine is called and its
\* (popt, pcov) is what the fit returns
Returned(op, arg) ==
  [op |-> op, arg |-> arg, outcome |-> "return", value |-> "popt_pcov",
   msg |-> ""]

Printed(op, arg, msg) ==
  [op |-> op, arg |-> arg, outcome |-> "return", value |-> "None", msg |-> msg]

Raised(op, arg, exc) ==
  [op |-> op, arg |-> arg, outcome |-> "raise", value |-> "", msg |-> exc]

\* np.logical_and(self.Kdp > 0, self.rain_rate > 0)
KdpRainFilter ==
  {i \in 1..Len(Val(Kdp)) : Gt0(Val(Kdp)[i]) /\ Gt0(Val(rain_rate)[i])}

\* self.rain_rate > 0
RainFilter == {i \in 1..Len(Val(rain_rate)) : Gt0(Val(rain_rate)[i])}

\* None > 0 (Python 3) or None[mask] (Python 2) raises TypeError before
\* expfit is reached
calc_R_kdp_relationship ==
  /\ pc = "idle"
  /\ before' = Snapshot
  /\ IF IsNone(rain_rate)
     THEN /\ fit' = <<>>
          /\ ret' = Raised("calc_R_kdp_relationship", <<>>, "TypeError")
     ELSE /\ fit' = <<Call("expfit", KdpRainFilter,
                           Take(Val(Kdp), KdpRainFilter),
                           Take(Val(rain_rate), KdpRainFilter))>>
          /\ ret' = Returned("calc_R_kdp_relationship", <<>>)
  /\ UNCHANGED <<inputs, rain_rate, series, scatterer, builds, calls, pc, t,
                 radarDone>>

calc_R_Zh_relationship ==
  /\ pc = "idle"
  /\ before' = Snapshot
  /\ IF IsNone(rain_rate)
     THEN /\ fit' = <<>>
          /\ ret' = Raised("calc_R_Zh_relationship", <<>>, "TypeError")
     ELSE /\ fit' = <<Call("expfit", RainFilter,
                           [j \in 1..Cardinality(RainFilter) |->
                              idb(Take(Val(Zh), RainFilter)[j])],
                           Take(Val(rain_rate), RainFilter))>>
          /\ ret' = Returned("calc_R_Zh_relationship", <<>>)
  /\ UNCHANGED <<inputs, rain_rate, series, scatterer, builds, calls, pc, t,
                 radarDone>>

MomentNames ==
  {"reflectivity", "differential_reflectivity", "specific_differential_phase"}

\* the selections offered: None or a list without repetition
MomentArgs == {None} \cup {Some(S) : S \in SUBSET MomentNames}

\* x1, x2, x3 of lines 198-208
X1(moments) ==
  IF "reflectivity" \in moments THEN Val(Zh) ELSE Ones(Len(Val(Zh)))
X2(moments) ==
  IF "differential_reflectivity" \in moments
  THEN Val(Zdr) ELSE Ones(Len(Val(Zh)))
X3(moments) ==
  IF "specific_differential_phase" \in moments
  THEN Val(Kdp) ELSE Ones(Len(Val(Zh)))

calc_rainfall_relationship(moments) ==
  /\ pc = "idle"
  /\ before' = Snapshot
  /\ LET me == "calc_rainfall_relationship" IN
     IF IsNone(rain_rate)
     THEN /\ fit' = <<>>
          /\ ret' = Printed(me, <<moments>>, "No Rain Rate Present")
     ELSE IF IsNone(Zh)
     THEN /\ fit' = <<>>
          /\ ret' = Printed(me, <<moments>>,
                            "No Radar Calculated Variables Present")
     ELSE IF IsNone(moments)
     THEN /\ fit' = <<>>
          /\ ret' = Printed(me, <<moments>>, "No moments selected")
     ELSE IF Cardinality(Val(moments)) = 3
     THEN /\ fit' = <<Call("curve_fit", KdpRainFilter,
                           <<Take(X1(Val(moments)), KdpRainFilter),
                             Take(X2(Val(moments)), KdpRainFilter),
                             Take(X3(Val(moments)), KdpRainFilter)>>,
                           <<Num(1), Num(1), Num(1), Num(1)>>)>>
          /\ ret' = Returned(me, <<moments>>)
     ELSE /\ fit' = <<>>
          /\ ret' = Printed(me, <<moments>>, "Have not implemented 2 yet")
  /\ UNCHANGED <<inputs, rain_rate, series, scatterer, builds, calls, pc, t,
                 radarDone>>

----------------------------------------------------------------------------
Next ==
  \/ calculate_RR
  \/ \E m \in 0..2 : calc_mth_moment(m)
  \/ \E w \in Wavelengths : crp_call(w)
  \/ crp_step
  \/ crp_fail
  \/ crp_return
  \/ calc_R_kdp_relationship
  \/ calc_R_Zh_relationship
  \/ \E moments \in MomentArgs : calc_rainfall_relationship(moments)

Spec == Init /\ [][Next]_vars

\* the DSD-only slice: calculate_RR reads the construction inputs alone
SpecRR == Init /\ [][calculate_RR]_vars

\* the radar slice: calc_radar_parameters never reads rain_rate
InitRadar == Init /\ rain_rate = None

NextRadar ==
  \/ \E w \in Wavelengths : crp_call(w)
  \/ crp_step
  \/ crp_fail
  \/ crp_return

SpecRadar == InitRadar /\ [][NextRadar]_vars

----------------------------------------------------------------------------
\* Properties

FitOps ==
  {"calc_R_kdp_relationship", "calc_R_Zh_relationship",
   "calc_rainfall_relationship"}

RECURSIVE SumOver(_, _)
SumOver(f, S) ==
  IF S = {} THEN 0
  ELSE LET x == CHOOSE y \in S : TRUE IN f[x] + SumOver(f, S \ {x})

IsSmallestBin(b) == \A c \in 1..Len(diameter) : diameter[b] <= diameter[c]

C1_v(b) == IF IsSmallestBin(b) THEN 500 ELSE Velocity(diameter[b])

C1_Sum(i) ==
  SumOver([b \in 1..Len(diameter) |->
             C1_v(b) * Nd[i][b] * spread[b]
               * (diameter[b] * diameter[b] * diameter[b])],
          1..Len(diameter))

C1_Scaled(x) == IF x = 0 THEN Num(0) ELSE [k |-> "rr", n |-> x]

\* C1: after calculate_RR returns, rain_rate is a length-T series, whatever
\* rain_rate was before, and entry t is 0.6*pi*1e-3 times the sum over all
\* bins of v * Nd[t] * spread * diameter^3, where v is 0.5 for the
\* smallest-diameter bin and 9.65 - 10.3*exp(-0.6*D) for the others.
C1_RainRate ==
  (ret.op = "calculate_RR" /\ ret.outcome = "return") =>
     /\ ~IsNone(rain_rate)
     /\ Len(Val(rain_rate)) = Len(time)
     /\ \A i \in 1..Len(time) : Val(rain_rate)[i] = C1_Scaled(C1_Sum(i))

\* two timesteps, a supplied rain_rate that the call replaced, drops in the
\* smallest bin and in another bin
C1_Witness ==
  /\ ret.op = "calculate_RR" /\ ret.outcome = "return"
  /\ Len(time) = 2
  /\ ~IsNone(before[5])
  /\ before[5] # rain_rate
  /\ Nd[1][1] > 0 /\ Nd[1][2] > 0 /\ Nd[2][2] > 0

C2_Expected(m) ==
  [i \in 1..Len(time) |->
     SumOver([b \in 1..Len(diameter) |->
                (IF m = 0 THEN 1 ELSE IF m = 1 THEN diameter[b]
                 ELSE diameter[b] * diameter[b])
                  * Nd[i][b] * (bin_edges[b + 1] - bin_edges[b])],
             1..Len(diameter))]

\* C2: for every valid DSD and exponent m, _calc_mth_moment completes and
\* returns the length-T sequence whose entry t is the sum over the bins of
\* diameter^m * Nd[t] * (bin_edges[i+1] - bin_edges[i]).
C2_Moment ==
  (ret.op = "_calc_mth_moment" /\ Len(Nd) = Len(time)) =>
     /\ ret.outcome = "return"
     /\ ret.value = C2_Expected(ret.arg[1])

\* C3: with rain_rate and radar parameters present, a selection of exactly
\* 1 or exactly 3 moments performs a fit and returns (popt, pcov); a
\* selection of exactly 2 performs no fit and reports that 2-moment fits
\* are unsupported.
C3_OneOrThree ==
  (/\ ret.op = "calc_rainfall_relationship"
   /\ ~IsNone(rain_rate)
   /\ radarDone
   /\ ~IsNone(ret.arg[1])) =>
     LET n == Cardinality(Val(ret.arg[1])) IN
       /\ n \in {1, 3} => (ret.value = "popt_pcov" /\ Len(fit) = 1)
       /\ n = 2 => (/\ ret.outcome = "return" /\ ret.value = "None"
                    /\ fit = <<>>
                    /\ ret.msg = "Have not implemented 2 yet")

\* C4: a fit called while rain_rate is absent, while the radar parameters
\* have not been computed, or (calc_rainfall_relationship) with a None or
\* empty selection raises nothing, never calls the regression routine and
\* returns no result.
C4_Preconditions ==
  (/\ ret.op \in FitOps
   /\ \/ IsNone(rain_rate)
      \/ ~radarDone
      \/ /\ ret.op = "calc_rainfall_relationship"
         /\ (IsNone(ret.arg[1]) \/ Val(ret.arg[1]) = {})) =>
     /\ ret.outcome = "return"
     /\ ret.value = "None"
     /\ fit = <<>>

C5_Filter ==
  IF ret.op = "calc_R_Zh_relationship" THEN RainFilter ELSE KdpRainFilter

\* C5: when the positivity filter selects no timestep, a fit reports a
\* precondition failure: it neither crashes nor hands an empty data set to
\* the regression routine.
C5_EmptyFilter ==
  (ret.op \in FitOps /\ ~IsNone(rain_rate) /\ C5_Filter = {}) =>
     /\ ret.outcome = "return"
     /\ ret.value = "None"
     /\ fit = <<>>

PosFinite(v) ==
  \/ v.k \in {"lin", "pow10", "rr"}
  \/ v.k = "num" /\ v.n > 0

\* C6: in both bivariate fits every pair (X[t], R[t]) handed to the
\* regression routine is strictly positive and finite, and no index with
\* Kdp[t] <= 0 or rain_rate[t] <= 0 is handed over.
C6_PositivePairs ==
  \A c \in 1..Len(fit) :
    fit[c].routine = "expfit" =>
      /\ \A j \in 1..Len(fit[c].X) :
           PosFinite(fit[c].X[j]) /\ PosFinite(fit[c].R[j])
      /\ \A i \in fit[c].idx :
           Gt0(Val(Kdp)[i]) /\ Gt0(Val(rain_rate)[i])

\* C7: before the first completed calc_radar_parameters call Zh, Zdr, Kdp
\* and Ai are undefined, not zero, and a fit called then treats the radar
\* parameters as missing.
C7_UndefinedNotZero ==
  ~radarDone =>
     /\ ret.op \in FitOps => (ret.value = "None" /\ fit = <<>>)
     /\ IsNone(Zh) /\ IsNone(Zdr) /\ IsNone(Kdp) /\ IsNone(Ai)

\* C8: when calc_radar_parameters or calculate_RR fails at some timestep,
\* Zh, Zdr, Kdp, Ai and rain_rate are what they were before the call.
C8_WholeArray ==
  (ret.op \in {"calc_radar_parameters", "calculate_RR"}
     /\ ret.outcome = "raise") => Snapshot = before

\* what the scattering engine returns for timestep i when it reads the psd
\* of that timestep under geometry g
C9_Read(q, g, i) ==
  [k |-> "lin", q |-> q, wl |-> scatterer.wavelength, geom |-> g,
   psd |-> [bin_edges |-> bin_edges, bin_psd |-> Nd[i]]]

C9_Empty(i) == \A b \in 1..Len(Nd[i]) : Nd[i][b] = 0

C9_OnlyIndex(arr, i) ==
  \A j \in 1..Len(Val(arr)) : j # i => Val(arr)'[j] = Val(arr)[j]

\* C9 as stated: the per-timestep work writes no field of the shared
\* scatterer, its psd and viewing geometry included.
C9_ReadOnlyScatterer ==
  [][(pc = "loop" /\ pc' = "loop") => scatterer' = scatterer]_vars

\* C9 as amended: the per-timestep work leaves the scatterer's
\* configuration and table alone and rewrites only its psd and geometry; it
\* runs no table build and writes only index t of the output arrays; in the
\* sequential loop every read for timestep t sees the psd of timestep t
\* under the geometry that quantity needs.
C9_LoopWrites ==
  [][(pc = "loop" /\ pc' = "loop") =>
       /\ scatterer' = [scatterer EXCEPT !.psd = scatterer'.psd,
                                         !.geom = scatterer'.geom]
       /\ builds' = builds
       /\ C9_OnlyIndex(Zh, t) /\ C9_OnlyIndex(Zdr, t)
       /\ C9_OnlyIndex(Kdp, t) /\ C9_OnlyIndex(Ai, t)
       /\ Val(Zh')[t] = IF C9_Empty(t) THEN NegInf
                        ELSE [C9_Read("refl", "geom_horiz_back", t)
                                EXCEPT !.k = "dB"]
       /\ Val(Zdr')[t] = IF C9_Empty(t) THEN NaN
                         ELSE [C9_Read("Zdr", "geom_horiz_back", t)
                                 EXCEPT !.k = "dB"]
       /\ Val(Kdp')[t] = IF C9_Empty(t) THEN Num(0)
                         ELSE C9_Read("Kdp", "geom_horiz_forw", t)
       /\ Val(Ai')[t] = IF C9_Empty(t) THEN Num(0)
                        ELSE C9_Read("Ai", "geom_horiz_forw", t)]_vars

\* two timesteps with different concentrations are done: the scatterer
\* holds the second one's psd and the forward geometry
C9_Witness ==
  /\ pc = "loop" /\ t = 3
  /\ Nd[1] # Nd[2]
  /\ ~C9_Empty(1) /\ ~C9_Empty(2)
  /\ scatterer.psd = Some([bin_edges |-> bin_edges, bin_psd |-> Nd[2]])
  /\ scatterer.geom = "geom_horiz_forw"
  /\ Val(Kdp)[1] # Val(Kdp)[2]

\* C10 as stated: init_scatter_table runs at most once per distinct
\* configuration over any sequence of calc_radar_parameters calls.
C10_Memoized ==
  \A i, j \in 1..Len(builds) : i # j => builds[i] # builds[j]

\* C10 as amended: init_scatter_table runs exactly once per
\* calc_radar_parameters call, for the configuration of that call's
\* wavelength, however many timesteps the call processes.
C10_OncePerCall ==
  /\ Len(builds) = calls
  /\ ret.op = "calc_radar_parameters" =>
       /\ calls > 0
       /\ builds[calls].wavelength = ret.arg[1]
       /\ scatterer.table = Some(builds[calls])

\* a second completed two-timestep call with the wavelength of the first
C10_Witness ==
  /\ calls = 2 /\ Len(builds) = 2
  /\ builds[1] = builds[2]
  /\ ret.op = "calc_radar_parameters" /\ ret.outcome = "return"
  /\ Len(time) = 2
====
